---- MODULE Spec2Model ----
(***************************************************************************)
(* Model of the wagering ledger of src/server.js: the User, Match,         *)
(* Transaction and Notification collections and the three mutating         *)
(* handlers that work on them (adjust, settle, pay) plus match creation.   *)
(*                                                                         *)
(* Every handler is an async function: it runs without interruption up to  *)
(* each `await` of a storage operation, and other requests run while it    *)
(* waits.  One action of the model is therefore one storage operation      *)
(* together with the synchronous code that follows it up to the next       *)
(* await.  A storage operation (findById, findByIdAndUpdate with $inc,     *)
(* save) is atomic on one document.                                        *)
(*                                                                         *)
(* Document.save() of a loaded document writes the paths modified on that  *)
(* copy ($set of status/winningTeam in settle, $set of teamX.i.paid in     *)
(* pay), not the whole document.                                           *)
(***************************************************************************)
EXTENDS Integers, Sequences, FiniteSets, Bags, TLC

\* ------------------------------------------------------------------ bounds
\* number of requests that arrive in one run
MaxReq == 2

\* ------------------------------------------------------------- input sets
\* the accounts of the User collection
Users == {"u1", "u2"}
\* an id no User document has
GhostUser == "u9"
UserIds == Users \cup {GhostUser}
\* the ids the store hands out to created matches, in this order
MatchIdSeq == <<"m1">>
MatchIds == {MatchIdSeq[k] : k \in 1..Len(MatchIdSeq)}
Names == {"Alpha vs Beta"}
\* a winningTeam that was not sent in the request body
Undefined == "undefined"
WinningTeamArgs == {"A", "B", Undefined}
Amounts == {-3, 5}
Descriptions == {"penalty"}

\* one roster entry (MatchSchema teamA/teamB element); paid is unset (falsy)
\* on creation
Entry(u, b) == [userId |-> u, betAmount |-> b, paid |-> FALSE]
\* the rosters a created match may be given
Rosters ==
    { << >>,
      <<Entry("u1", 1)>>,
      <<Entry("u2", 2)>>,
      <<Entry("u1", 1), Entry(GhostUser, 2)>> }

\* -------------------------------------------------------------- documents
\* what findById returns for an id with no document
Null ==
    [name |-> "", teamA |-> << >>, teamB |-> << >>,
     winningTeam |-> Undefined, status |-> "ABSENT"]

NewMatch(name, teamA, teamB) ==
    [name |-> name, teamA |-> teamA, teamB |-> teamB,
     winningTeam |-> Undefined, status |-> "UNDECIDED"]

NewUser == [balance |-> 0, totalMatchesPaid |-> 0]

Transaction(userId, amount, type, description) ==
    [userId |-> userId, amount |-> amount, type |-> type,
     description |-> description]

Notification(userId, message) == [userId |-> userId, message |-> message]

\* a request as it arrives: its arguments, no response yet, no locals
Request(kind, id, userId, winningTeam, amount, description) ==
    [kind |-> kind, pc |-> "new", res |-> 0, id |-> id, userId |-> userId,
     winningTeam |-> winningTeam, amount |-> amount,
     description |-> description, match |-> Null, i |-> 0]

\* users, matches, transactions, notifications: the four collections.
\* req: the requests that have arrived, each with its arguments, the place
\* its handler has reached (pc), its locals (match, i) and its response
\* (res, 0 while there is none).  Requests carry no identity of their own,
\* so req is a bag.
VARIABLES users, matches, transactions, notifications, req

vars == <<users, matches, transactions, notifications, req>>

Init ==
    /\ users = [u \in Users |-> NewUser]
    /\ matches = [m \in MatchIds |-> Null]
    /\ transactions = EmptyBag
    /\ notifications = EmptyBag
    /\ req = EmptyBag

\* --------------------------------------------------------------- helpers
\* a balance update that refuses to go below zero
IncBalanceFloor(us, userId, amount) ==
    IF userId \in DOMAIN us
    THEN [us EXCEPT ![userId].balance = IF @ + amount < 0 THEN 0 ELSE @ + amount]
    ELSE us

\* a balance update that writes the amount instead of adding it
IncBalanceSet(us, userId, amount) ==
    IF userId \in DOMAIN us
    THEN [us EXCEPT ![userId].balance = amount]
    ELSE us

\* User.findByIdAndUpdate(id, {$inc: {balance: amount}}): no document, no
\* update
IncBalance(us, userId, amount) ==
    IF userId \in DOMAIN us
    THEN [us EXCEPT ![userId].balance = @ + amount]
    ELSE us

\* User.findByIdAndUpdate(id, {$inc: {totalMatchesPaid: 1}})
IncPaid(us, userId) ==
    IF userId \in DOMAIN us
    THEN [us EXCEPT ![userId].totalMatchesPaid = @ + 1]
    ELSE us

\* a save that replaces the collection by the new entry
SaveTransactionOverwrite(txs, t) == SetToBag({t})

\* new Transaction({...}).save()
SaveTransaction(txs, t) == txs (+) SetToBag({t})

\* new Notification({...}).save()
SaveNotification(ns, n) == ns (+) SetToBag({n})

\* the requests that have arrived
Requests == BagToSet(req)

\* one more request may arrive
CanArrive == BagCardinality(req) < MaxReq

\* request x arrives and its handler runs up to its first await
Arrive(x) == req (+) SetToBag({x})

\* the handler of request x moves on and the request becomes y
Step(x, y) == (req (-) SetToBag({x})) (+) SetToBag({y})

\* the handler of x ends with response res (0: none): its locals are gone
Ended(x, pc, res) ==
    [x EXCEPT !.pc = pc, !.res = res, !.match = Null, !.i = 0]

\* the next free match id, "" when none is left
NextMatchId ==
    LET free == {k \in 1..Len(MatchIdSeq) : matches[MatchIdSeq[k]] = Null}
    IN IF free = {} THEN ""
       ELSE MatchIdSeq[CHOOSE k \in free : \A j \in free : k <= j]

\* ------------------------------------------------------------ createMatch
\* new Match(req.body).save() with a body of name, teamA and teamB
CreateMatch(name, teamA, teamB) ==
    /\ NextMatchId # ""
    /\ matches' = [matches EXCEPT ![NextMatchId] = NewMatch(name, teamA, teamB)]
    /\ UNCHANGED <<users, transactions, notifications, req>>

\* ----------------------------------------------------------------- adjust
\* the message of the notification adjust saves
AdjustMessage(amount, description) ==
    <<"System Adjustment: ", IF amount >= 0 THEN "+" ELSE "", amount,
      " credits (", description, ")">>

\* adjust without the test of the result of findByIdAndUpdate
AdjustUnchecked(userId, amount, description) ==
    /\ CanArrive
    /\ users' = IncBalance(users, userId, amount)
    /\ req' = Arrive([Request("adjust", "", userId, Undefined, amount,
                              description) EXCEPT !.pc = "tx"])
    /\ UNCHANGED <<matches, transactions, notifications>>

\* request arrives; findByIdAndUpdate($inc balance) and the test of its result
Adjust(userId, amount, description) ==
    /\ CanArrive
    /\ users' = IncBalance(users, userId, amount)
    /\ LET x == Request("adjust", "", userId, Undefined, amount, description)
       IN req' = Arrive(IF userId \in DOMAIN users
                        THEN [x EXCEPT !.pc = "tx"]
                        ELSE Ended(x, "done", 404))
    /\ UNCHANGED <<matches, transactions, notifications>>

\* new Transaction({... type: 'ADMIN_ADJUST' ...}).save()
AdjustTx(x) ==
    /\ x.kind = "adjust" /\ x.pc = "tx"
    /\ transactions' =
         SaveTransaction(transactions,
             Transaction(x.userId, x.amount, "ADMIN_ADJUST", x.description))
    /\ req' = Step(x, [x EXCEPT !.pc = "notif"])
    /\ UNCHANGED <<users, matches, notifications>>

\* new Notification({...}).save(); res.json(user)
AdjustNotify(x) ==
    /\ x.kind = "adjust" /\ x.pc = "notif"
    /\ notifications' =
         SaveNotification(notifications,
             Notification(x.userId, AdjustMessage(x.amount, x.description)))
    /\ req' = Step(x, Ended(x, "done", 200))
    /\ UNCHANGED <<users, matches, transactions>>

\* ----------------------------------------------------------------- settle
\* a guard that tests only that the match was found
RejectedAbsentOnly(match) == match = Null

\* the guard of line 125
Rejected(match) == match = Null \/ match.status = "SETTLED"

\* the two rosters taken the wrong way round
WinnersSwapped(match, winningTeam) ==
    IF winningTeam = "A" THEN match.teamB ELSE match.teamA

Winners(match, winningTeam) ==
    IF winningTeam = "A" THEN match.teamA ELSE match.teamB

Losers(match, winningTeam) ==
    IF winningTeam = "A" THEN match.teamB ELSE match.teamA

\* where the handler stands once the winners loop has done k entries
AfterWinners(match, winningTeam, k) ==
    IF k < Len(Winners(match, winningTeam)) THEN "win_inc"
    ELSE IF Len(Losers(match, winningTeam)) > 0 THEN "lose_inc"
    ELSE "done"

\* where the handler stands once the losers loop has done k entries
AfterLosers(match, winningTeam, k) ==
    IF k < Len(Losers(match, winningTeam)) THEN "lose_inc" ELSE "done"

\* request arrives; Match.findById, the guard, and the assignments to the
\* loaded copy
Settle(id, winningTeam) ==
    /\ CanArrive
    /\ LET x == Request("settle", id, "", winningTeam, 0, "")
       IN req' = Arrive(IF Rejected(matches[id])
                        THEN Ended(x, "done", 400)
                        ELSE [x EXCEPT !.pc = "save",
                                       !.match = [matches[id] EXCEPT
                                                    !.status = "SETTLED",
                                                    !.winningTeam = winningTeam]])
    /\ UNCHANGED <<users, matches, transactions, notifications>>

\* a save that writes the whole loaded copy back
SettleSaveWhole(x) ==
    /\ x.kind = "settle" /\ x.pc = "save"
    /\ matches' = [matches EXCEPT ![x.id] = x.match]
    /\ LET pc == AfterWinners(x.match, x.winningTeam, 0)
       IN req' = Step(x, IF pc = "done" THEN Ended(x, "done", 200)
                         ELSE [x EXCEPT !.pc = pc, !.i = 1])
    /\ UNCHANGED <<users, transactions, notifications>>

\* match.save(): $set of the two modified paths status and winningTeam
SettleSave(x) ==
    /\ x.kind = "settle" /\ x.pc = "save"
    /\ matches' = [matches EXCEPT ![x.id].status = x.match.status,
                                  ![x.id].winningTeam = x.match.winningTeam]
    /\ LET pc == AfterWinners(x.match, x.winningTeam, 0)
       IN req' = Step(x, IF pc = "done" THEN Ended(x, "done", 200)
                         ELSE [x EXCEPT !.pc = pc, !.i = 1])
    /\ UNCHANGED <<users, transactions, notifications>>

\* winners loop: User.findByIdAndUpdate(p.userId, {$inc: {balance: p.betAmount}})
SettleWinInc(x) ==
    /\ x.kind = "settle" /\ x.pc = "win_inc"
    /\ LET p == Winners(x.match, x.winningTeam)[x.i]
       IN users' = IncBalance(users, p.userId, p.betAmount)
    /\ req' = Step(x, [x EXCEPT !.pc = "win_tx"])
    /\ UNCHANGED <<matches, transactions, notifications>>

\* winners loop: new Transaction({... type: 'WIN' ...}).save()
SettleWinTx(x) ==
    /\ x.kind = "settle" /\ x.pc = "win_tx"
    /\ LET p == Winners(x.match, x.winningTeam)[x.i]
       IN transactions' =
            SaveTransaction(transactions,
                Transaction(p.userId, p.betAmount, "WIN",
                            <<"Victory: ", x.match.name>>))
    /\ LET pc == AfterWinners(x.match, x.winningTeam, x.i)
       IN req' = Step(x, IF pc = "done" THEN Ended(x, "done", 200)
                         ELSE [x EXCEPT !.pc = pc,
                                 !.i = IF pc = "win_inc" THEN @ + 1 ELSE 1])
    /\ UNCHANGED <<users, matches, notifications>>

\* losers loop: User.findByIdAndUpdate(p.userId, {$inc: {balance: -p.betAmount}})
SettleLoseInc(x) ==
    /\ x.kind = "settle" /\ x.pc = "lose_inc"
    /\ LET p == Losers(x.match, x.winningTeam)[x.i]
       IN users' = IncBalance(users, p.userId, -p.betAmount)
    /\ req' = Step(x, [x EXCEPT !.pc = "lose_tx"])
    /\ UNCHANGED <<matches, transactions, notifications>>

\* losers loop: new Transaction({... type: 'LOSS' ...}).save(); after the
\* last one res.json(match)
SettleLoseTx(x) ==
    /\ x.kind = "settle" /\ x.pc = "lose_tx"
    /\ LET p == Losers(x.match, x.winningTeam)[x.i]
       IN transactions' =
            SaveTransaction(transactions,
                Transaction(p.userId, -p.betAmount, "LOSS",
                            <<"Defeat: ", x.match.name>>))
    /\ LET pc == AfterLosers(x.match, x.winningTeam, x.i)
       IN req' = Step(x, IF pc = "done" THEN Ended(x, "done", 200)
                         ELSE [x EXCEPT !.pc = pc, !.i = @ + 1])
    /\ UNCHANGED <<users, matches, notifications>>

\* -------------------------------------------------------------------- pay
\* team.find(player => player.userId === userId): index of the first entry
\* of the account, 0 when there is none
FindPlayer(team, userId) ==
    LET hits == {k \in 1..Len(team) : team[k].userId = userId}
    IN IF hits = {} THEN 0 ELSE CHOOSE k \in hits : \A j \in hits : k <= j

\* a forEach body that flips the flag of the entry found
MarkPaidToggle(team, userId) ==
    IF FindPlayer(team, userId) = 0 THEN team
    ELSE [team EXCEPT ![FindPlayer(team, userId)].paid = ~@]

\* the forEach body on one team: p.paid = true on the entry found
MarkPaid(team, userId) ==
    IF FindPlayer(team, userId) = 0 THEN team
    ELSE [team EXCEPT ![FindPlayer(team, userId)].paid = TRUE]

\* found set whatever the search gives
FoundAlways(match, userId) == TRUE

\* found, after the forEach over both teams
Found(match, userId) ==
    \/ FindPlayer(match.teamA, userId) # 0
    \/ FindPlayer(match.teamB, userId) # 0

\* request arrives; Match.findById and the search of both teams
Pay(id, userId) ==
    /\ CanArrive
    /\ LET x == Request("pay", id, userId, Undefined, 0, "")
           match == matches[id]
       IN req' = Arrive(IF match = Null \/ ~Found(match, userId)
                        THEN Ended(x, "done", 404)
                        ELSE [x EXCEPT !.pc = "save",
                                       !.match = [match EXCEPT
                                          !.teamA = MarkPaid(@, userId),
                                          !.teamB = MarkPaid(@, userId)]])
    /\ UNCHANGED <<users, matches, transactions, notifications>>

\* a save that writes the whole loaded copy back
PaySaveWhole(x) ==
    /\ x.kind = "pay" /\ x.pc = "save"
    /\ matches' = [matches EXCEPT ![x.id] = x.match]
    /\ req' = Step(x, [x EXCEPT !.pc = "count"])
    /\ UNCHANGED <<users, transactions, notifications>>

\* match.save(): $set of teamX.k.paid for the entries marked on the copy
PaySave(x) ==
    /\ x.kind = "pay" /\ x.pc = "save"
    /\ matches' = [matches EXCEPT ![x.id].teamA = MarkPaid(@, x.userId),
                                  ![x.id].teamB = MarkPaid(@, x.userId)]
    /\ req' = Step(x, [x EXCEPT !.pc = "count"])
    /\ UNCHANGED <<users, transactions, notifications>>

\* User.findByIdAndUpdate(userId, {$inc: {totalMatchesPaid: 1}}); res.json
PayCount(x) ==
    /\ x.kind = "pay" /\ x.pc = "count"
    /\ users' = IncPaid(users, x.userId)
    /\ req' = Step(x, Ended(x, "done", 200))
    /\ UNCHANGED <<matches, transactions, notifications>>

\* ---------------------------------------------------------------- failure
\* the storage operation a request waits on throws, or the process stops:
\* adjust and pay catch and answer 400, settle has no handler and answers
\* nothing.  The operation itself has no effect.
Fail(x) ==
    /\ x.pc \notin {"done", "failed"}
    /\ req' = Step(x, Ended(x, "failed", IF x.kind = "settle" THEN 0 ELSE 400))
    /\ UNCHANGED <<users, matches, transactions, notifications>>

Next ==
    \/ \E n \in Names, a \in Rosters, b \in Rosters : CreateMatch(n, a, b)
    \/ \E u \in UserIds, a \in Amounts, d \in Descriptions : Adjust(u, a, d)
    \/ \E x \in Requests : AdjustTx(x)
    \/ \E x \in Requests : AdjustNotify(x)
    \/ \E id \in MatchIds, w \in WinningTeamArgs : Settle(id, w)
    \/ \E x \in Requests : SettleSave(x)
    \/ \E x \in Requests : SettleWinInc(x)
    \/ \E x \in Requests : SettleWinTx(x)
    \/ \E x \in Requests : SettleLoseInc(x)
    \/ \E x \in Requests : SettleLoseTx(x)
    \/ \E id \in MatchIds, u \in UserIds : Pay(id, u)
    \/ \E x \in Requests : PaySave(x)
    \/ \E x \in Requests : PayCount(x)
    \/ \E x \in Requests : Fail(x)

Spec == Init /\ [][Next]_vars
\* ================================================================ claims
RECURSIVE SumFn(_, _)
\* sum of f[x] over x in S
SumFn(f, S) ==
    IF S = {} THEN 0
    ELSE LET x == CHOOSE y \in S : TRUE IN f[x] + SumFn(f, S \ {x})

RECURSIVE BagSumFn(_, _)
\* bag union of f[x] over x in S
BagSumFn(f, S) ==
    IF S = {} THEN EmptyBag
    ELSE LET x == CHOOSE y \in S : TRUE IN f[x] (+) BagSumFn(f, S \ {x})

\* n copies of every element of bag b
Times(n, b) == [e \in DOMAIN b |-> n * b[e]]

\* how many of the arrived requests satisfy P, given as the set of records
Count(S) == SumFn([x \in S |-> req[x]], S)

\* sum of the amounts of the ledger entries of account u
LedgerSum(u) ==
    LET S == {t \in DOMAIN transactions : t.userId = u}
    IN SumFn([t \in S |-> t.amount * transactions[t]], S)

\* settle requests the guard let through
AcceptedSettles(id) ==
    {x \in Requests : x.kind = "settle" /\ x.id = id
                      /\ ~(x.pc = "done" /\ x.res = 400)}

\* settle requests that have written SETTLED and gone on to the payouts
AppliedSettles(id) ==
    {x \in Requests : x.kind = "settle" /\ x.id = id
                      /\ (x.res = 200 \/ x.pc \in {"win_inc", "win_tx",
                                                   "lose_inc", "lose_tx"})}

\* C1: every account's balance equals the sum of the amounts of the ledger
\* entries that reference it, in every reachable state.
Conservation ==
    \A u \in Users : users[u].balance = LedgerSum(u)

\* the matches that carry the name of match id
SameName(id) ==
    {m \in MatchIds : matches[m] # Null /\ matches[m].name = matches[id].name}

\* number of roster entries of match id
RosterSize(id) == Len(matches[id].teamA) + Len(matches[id].teamB)

\* number of WIN/LOSS ledger entries whose description names match id
PayoutEntries(id) ==
    LET S == {t \in DOMAIN transactions :
                /\ t.type \in {"WIN", "LOSS"}
                /\ t.description[2] = matches[id].name}
    IN SumFn([t \in S |-> transactions[t]], S)

\* C2: however settle requests for one match interleave, payouts are applied
\* once: the ledger never holds more WIN/LOSS entries for a match than the
\* match has roster entries.
ExactlyOnceSettlement ==
    \A id \in MatchIds :
        matches[id] # Null =>
            PayoutEntries(id) <=
                SumFn([m \in SameName(id) |-> RosterSize(m)], SameName(id))

\* the requests that arrive in this step, as they stand after their first
\* storage operation
Arriving ==
    {y \in BagToSet(req') :
        /\ BagCardinality(req') > BagCardinality(req)
        /\ CopiesIn(y, req') > CopiesIn(y, req)}

\* C3: a settle request that finds its match SETTLED, or finds no match,
\* fails and leaves balances, ledger and match as they were.
ResettleRejected ==
    [][\A y \in Arriving :
          (y.kind = "settle" /\ (matches[y.id] = Null
                                 \/ matches[y.id].status = "SETTLED"))
          => /\ y.pc = "done" /\ y.res = 400
             /\ users' = users
             /\ transactions' = transactions
             /\ matches' = matches]_vars

\* C3 witness: a match settled by one request, and a later request with the
\* other winningTeam answered 400.
ResettleRejectedWitness ==
    \E x \in Requests, y \in Requests :
        /\ x.kind = "settle" /\ x.res = 200
        /\ y.kind = "settle" /\ y.id = x.id /\ y.res = 400
        /\ y.winningTeam # x.winningTeam
        /\ matches[x.id].status = "SETTLED"
        /\ matches[x.id].winningTeam = x.winningTeam
        /\ RosterSize(x.id) > 0

\* |n|
Abs(n) == IF n < 0 THEN -n ELSE n

\* roster entry p has its WIN or LOSS entry in the ledger
PaidOut(p) ==
    \E t \in DOMAIN transactions :
        /\ t.userId = p.userId
        /\ t.type \in {"WIN", "LOSS"}
        /\ Abs(t.amount) = p.betAmount

\* C4: whenever a match is stored as SETTLED, the WIN/LOSS ledger entry of
\* every entry of both rosters is present.
SettledImpliesPaidOut ==
    \A id \in MatchIds :
        matches[id].status = "SETTLED" =>
            /\ \A k \in 1..Len(matches[id].teamA) : PaidOut(matches[id].teamA[k])
            /\ \A k \in 1..Len(matches[id].teamB) : PaidOut(matches[id].teamB[k])

\* C5: an account's totalMatchesPaid never exceeds the number of matches it
\* has a roster entry in (each match/account pair counts once).
PaidCountedOnce ==
    \A u \in Users :
        users[u].totalMatchesPaid
            <= Cardinality({id \in MatchIds : Found(matches[id], u)})
\* every request that arrived has been answered, none was cut short
Quiet == \A x \in Requests : x.pc = "done"

\* every settle request that succeeded named team A or team B
ValidSettlesOnly ==
    \A x \in Requests :
        (x.kind = "settle" /\ x.res = 200) => x.winningTeam \in {"A", "B"}

\* the roster named by W and the other one
RosterOf(match, W) == IF W = "A" THEN match.teamA ELSE match.teamB
OtherRosterOf(match, W) == IF W = "A" THEN match.teamB ELSE match.teamA

\* sum of the stakes account u holds in a roster
StakeOf(team, u) ==
    SumFn([k \in 1..Len(team) |->
             IF team[k].userId = u THEN team[k].betAmount ELSE 0],
          1..Len(team))

\* one ledger entry of sign * stake per entry of a roster
RosterLedger(team, sign, type, description) ==
    BagSumFn([k \in 1..Len(team) |->
                SetToBag({Transaction(team[k].userId, sign * team[k].betAmount,
                                      type, description)})],
             1..Len(team))

\* what one answered request is due to add to the balance of account u
DueDelta(x, u) ==
    IF x.res # 200 THEN 0
    ELSE IF x.kind = "adjust" THEN (IF x.userId = u THEN x.amount ELSE 0)
    ELSE IF x.kind = "settle"
    THEN StakeOf(RosterOf(matches[x.id], x.winningTeam), u)
         - StakeOf(OtherRosterOf(matches[x.id], x.winningTeam), u)
    ELSE 0

\* what one answered request is due to append to the ledger
DueLedger(x) ==
    IF x.res # 200 THEN EmptyBag
    ELSE IF x.kind = "adjust"
    THEN SetToBag({Transaction(x.userId, x.amount, "ADMIN_ADJUST",
                               x.description)})
    ELSE IF x.kind = "settle"
    THEN RosterLedger(RosterOf(matches[x.id], x.winningTeam), 1, "WIN",
                      <<"Victory: ", matches[x.id].name>>)
         (+) RosterLedger(OtherRosterOf(matches[x.id], x.winningTeam), -1,
                          "LOSS", <<"Defeat: ", matches[x.id].name>>)
    ELSE EmptyBag

\* C6: once every request is answered, each successful settle(match, W) has
\* added the stake of every entry of roster W to its account with one WIN
\* entry, taken the stake of every entry of the other roster with one LOSS
\* entry, and nothing else moved; a match settled by one request is SETTLED
\* with winningTeam = W.
PayoutComputation ==
    (Quiet /\ ValidSettlesOnly) =>
        /\ \A u \in Users :
              users[u].balance =
                  SumFn([x \in Requests |-> req[x] * DueDelta(x, u)], Requests)
        /\ transactions =
              BagSumFn([x \in Requests |-> Times(req[x], DueLedger(x))], Requests)
        /\ \A x \in Requests :
              (x.kind = "settle" /\ x.res = 200
                 /\ Count(AppliedSettles(x.id)) = 1)
              => /\ matches[x.id].status = "SETTLED"
                 /\ matches[x.id].winningTeam = x.winningTeam

\* C6 witness: a settle of a match with entries on both sides has succeeded,
\* next to another answered request.
PayoutComputationWitness ==
    /\ Quiet /\ ValidSettlesOnly
    /\ BagCardinality(req) >= 2
    /\ \E x \in Requests :
          /\ x.kind = "settle" /\ x.res = 200
          /\ Len(matches[x.id].teamA) > 0 /\ Len(matches[x.id].teamB) > 0
          /\ \E u \in Users : users[u].balance # 0

\* C7: for every match, winningTeam is "A" or "B" exactly when the match is
\* SETTLED, and is unset otherwise.
WinningTeamIffSettled ==
    \A id \in MatchIds :
        matches[id] # Null =>
            /\ matches[id].winningTeam \in {"A", "B", Undefined}
            /\ (matches[id].winningTeam # Undefined
                  <=> matches[id].status = "SETTLED")

\* C8: a settle request whose winningTeam is neither "A" nor "B" never
\* writes SETTLED nor pays out nor succeeds.
InvalidWinningTeamRejected ==
    \A x \in Requests :
        (x.kind = "settle" /\ x.winningTeam \notin {"A", "B"})
        => /\ x.res # 200
           /\ x.pc \notin {"win_inc", "win_tx", "lose_inc", "lose_tx"}

\* C9: when the only settle request a match has seen stopped before its
\* last payout, the match is still UNDECIDED and nothing of its payouts is
\* in the ledger.
FailedSettleLeavesUndecided ==
    \A x \in Requests :
        (x.kind = "settle" /\ x.pc = "failed"
           /\ Count({y \in Requests : y.kind = "settle"}) = 1)
        => /\ matches[x.id].status = "UNDECIDED"
           /\ PayoutEntries(x.id) = 0

\* the members and stake amounts of a roster
Stakes(team) ==
    [k \in 1..Len(team) |->
        [userId |-> team[k].userId, betAmount |-> team[k].betAmount]]

\* C10: once a match is SETTLED, its status, its winningTeam and its
\* rosters' members and stakes never change again.
SettledImmutable ==
    [][\A id \in MatchIds :
          matches[id].status = "SETTLED"
          => /\ matches'[id].status = "SETTLED"
             /\ matches'[id].winningTeam = matches[id].winningTeam
             /\ Stakes(matches'[id].teamA) = Stakes(matches[id].teamA)
             /\ Stakes(matches'[id].teamB) = Stakes(matches[id].teamB)]_vars
\* the entries of both rosters of a match
Entries(match) ==
    {match.teamA[k] : k \in 1..Len(match.teamA)}
    \cup {match.teamB[k] : k \in 1..Len(match.teamB)}

\* C11: settle never reports success while a roster entry of the match has
\* no account to take its delta, and the ledger holds no WIN/LOSS entry of
\* an account that does not exist.
NoSilentSkip ==
    /\ \A x \in Requests :
          (x.kind = "settle" /\ x.res = 200)
          => \A p \in Entries(matches[x.id]) : p.userId \in Users
    /\ \A t \in DOMAIN transactions :
          t.type \in {"WIN", "LOSS"} => t.userId \in Users

\* no settle request has got past the guard
NoSettleApplied ==
    \A x \in Requests : x.kind = "settle" => (x.pc = "done" /\ x.res = 400)

\* the successful adjust requests with these arguments
Adjusted(u, a, d) ==
    {x \in Requests : /\ x.kind = "adjust" /\ x.res = 200
                      /\ x.userId = u /\ x.amount = a /\ x.description = d}

\* C12: once every request is answered and no settle was accepted, every
\* balance is the sum of the amounts of the successful adjusts of that
\* account (below zero included), and the ledger holds one ADMIN_ADJUST entry
\* and the notifications one message per successful adjust, no more.
AdjustEffect ==
    (Quiet /\ NoSettleApplied) =>
        /\ \A u \in Users :
              LET S == {x \in Requests : x.kind = "adjust" /\ x.res = 200
                                         /\ x.userId = u}
              IN users[u].balance = SumFn([x \in S |-> req[x] * x.amount], S)
        /\ \A u \in UserIds, a \in Amounts, d \in Descriptions :
              /\ CopiesIn(Transaction(u, a, "ADMIN_ADJUST", d), transactions)
                   = Count(Adjusted(u, a, d))
              /\ CopiesIn(Notification(u, AdjustMessage(a, d)), notifications)
                   = Count(Adjusted(u, a, d))
        /\ BagCardinality(transactions)
             = Count({x \in Requests : x.kind = "adjust" /\ x.res = 200})
        /\ BagCardinality(notifications) = BagCardinality(transactions)

\* C12 witness: a successful adjust of -3 has left its account below zero,
\* the other account untouched.
AdjustEffectWitness ==
    /\ Quiet /\ NoSettleApplied
    /\ \E x \in Requests :
          /\ x.kind = "adjust" /\ x.res = 200 /\ x.amount < 0
          /\ users[x.userId].balance < 0
          /\ \E v \in Users : v # x.userId /\ users[v].balance = 0
          /\ BagCardinality(notifications) = 1

\* C13: an adjust of an account that does not exist is answered 404 and
\* changes no balance, appends no ledger entry and saves no notification.
AdjustNotFound ==
    [][\A y \in Arriving :
          (y.kind = "adjust" /\ y.userId \notin Users)
          => /\ y.pc = "done" /\ y.res = 404
             /\ users' = users
             /\ transactions' = transactions
             /\ notifications' = notifications]_vars

\* C13 witness: such an adjust has been answered 404, ledger and
\* notifications empty.
AdjustNotFoundWitness ==
    /\ \E x \in Requests :
          x.kind = "adjust" /\ x.userId = GhostUser /\ x.res = 404
    /\ transactions = EmptyBag /\ notifications = EmptyBag
    /\ \A u \in Users : users[u].balance = 0

\* the first k entries of a roster
Prefix(team, k) == SubSeq(team, 1, k)

\* the balance deltas request x has applied to account u so far
AppliedDelta(x, u) ==
    IF x.kind = "adjust"
    THEN (IF x.userId = u /\ x.res # 404 THEN x.amount ELSE 0)
    ELSE IF x.kind # "settle" THEN 0
    ELSE IF x.res = 200
    THEN StakeOf(Winners(matches[x.id], x.winningTeam), u)
         - StakeOf(Losers(matches[x.id], x.winningTeam), u)
    ELSE IF x.pc = "win_inc"
    THEN StakeOf(Prefix(Winners(x.match, x.winningTeam), x.i - 1), u)
    ELSE IF x.pc = "win_tx"
    THEN StakeOf(Prefix(Winners(x.match, x.winningTeam), x.i), u)
    ELSE IF x.pc = "lose_inc"
    THEN StakeOf(Winners(x.match, x.winningTeam), u)
         - StakeOf(Prefix(Losers(x.match, x.winningTeam), x.i - 1), u)
    ELSE IF x.pc = "lose_tx"
    THEN StakeOf(Winners(x.match, x.winningTeam), u)
         - StakeOf(Prefix(Losers(x.match, x.winningTeam), x.i), u)
    ELSE 0

\* no settle request was cut short (what it had applied is not recorded)
NoSettleFailed ==
    \A x \in Requests : ~(x.kind = "settle" /\ x.pc = "failed")

LedgerAppendOnly ==
    [][\A t \in DOMAIN transactions :
          CopiesIn(t, transactions') >= CopiesIn(t, transactions)]_vars

\* C15 witness: the ledger holds an ADMIN_ADJUST entry next to a WIN or
\* LOSS entry.
LedgerAppendOnlyWitness ==
    /\ \E t \in DOMAIN transactions : t.type = "ADMIN_ADJUST"
    /\ \E t \in DOMAIN transactions : t.type \in {"WIN", "LOSS"}

\* the paid flags of a match, entry by entry
PaidFlags(match) ==
    <<[k \in 1..Len(match.teamA) |-> match.teamA[k].paid],
      [k \in 1..Len(match.teamB) |-> match.teamB[k].paid]>>

\* C16: a roster entry whose paid flag is true keeps it true through every
\* step.
PaidMonotonic ==
    [][\A id \in MatchIds :
          /\ \A k \in 1..Len(matches[id].teamA) :
                matches[id].teamA[k].paid => matches'[id].teamA[k].paid
          /\ \A k \in 1..Len(matches[id].teamB) :
                matches[id].teamB[k].paid => matches'[id].teamB[k].paid]_vars

\* C16 witness: an entry is paid, a second pay of it has been answered and
\* the match has been settled.
PaidMonotonicWitness ==
    \E id \in MatchIds, u \in Users :
        /\ FindPlayer(matches[id].teamA, u) # 0
        /\ matches[id].teamA[FindPlayer(matches[id].teamA, u)].paid
        /\ matches[id].status = "SETTLED"
        /\ \E x \in Requests :
              x.kind = "pay" /\ x.id = id /\ x.userId = u /\ x.res = 200

\* sum of the stakes of a roster
TotalStake(team) ==
    SumFn([k \in 1..Len(team) |-> team[k].betAmount], 1..Len(team))

\* C17: with nothing but successful settles moving credits, the sum of all
\* balances is the sum over those settles of the winning roster's stakes
\* minus the losing roster's stakes.
SettleNetChange ==
    (/\ Quiet /\ ValidSettlesOnly
     /\ \A x \in Requests : x.kind = "adjust" => x.res = 404)
    => LET S == {x \in Requests : x.kind = "settle" /\ x.res = 200}
       IN SumFn([u \in Users |-> users[u].balance], Users)
            = SumFn([x \in S |->
                       req[x] * (TotalStake(RosterOf(matches[x.id], x.winningTeam))
                                 - TotalStake(OtherRosterOf(matches[x.id],
                                                            x.winningTeam)))],
                    S)

\* the entry of account u in a team, if there is one, is paid
PaidIn(team, u) ==
    FindPlayer(team, u) # 0 => team[FindPlayer(team, u)].paid

\* C18: a pay request that finds no match, or no entry of the account in
\* either team, is answered 404 and changes no match and no account.
PayNotFound ==
    [][\A y \in Arriving :
          (y.kind = "pay"
             /\ \/ matches[y.id] = Null
                \/ \A p \in Entries(matches[y.id]) : p.userId # y.userId)
          => /\ y.pc = "done" /\ y.res = 404
             /\ matches' = matches
             /\ users' = users]_vars

\* C18 witness: a pay of an account outside the rosters of an existing
\* match has been answered 404.
PayNotFoundWitness ==
    \E x \in Requests :
        /\ x.kind = "pay" /\ x.res = 404
        /\ matches[x.id] # Null /\ RosterSize(x.id) > 0
        /\ \A p \in Entries(matches[x.id]) : ~p.paid
        /\ \A u \in Users : users[u].totalMatchesPaid = 0

\* C19: when a pay request and the one settle request of a match have both
\* succeeded, the match is SETTLED with the winningTeam asked for and the
\* entry of the account is paid.
PayAndSettleKeepBoth ==
    \A x \in Requests, y \in Requests :
        (/\ x.kind = "pay" /\ x.res = 200
         /\ y.kind = "settle" /\ y.res = 200 /\ y.id = x.id
         /\ Count(AcceptedSettles(y.id)) = 1)
        => /\ matches[x.id].status = "SETTLED"
           /\ matches[x.id].winningTeam = y.winningTeam
           /\ PaidIn(matches[x.id].teamA, x.userId)
           /\ PaidIn(matches[x.id].teamB, x.userId)

\* C19 witness: a pay and a settle("A") of one match have both succeeded.
PayAndSettleKeepBothWitness ==
    \E x \in Requests, y \in Requests :
        /\ x.kind = "pay" /\ x.res = 200
        /\ y.kind = "settle" /\ y.res = 200 /\ y.id = x.id
        /\ y.winningTeam = "A"
        /\ matches[x.id].winningTeam = "A"
        /\ \E p \in Entries(matches[x.id]) : p.userId = x.userId /\ p.paid

\* the requests whose handler moves in this step, as they stand after it
Moved ==
    {y \in BagToSet(req') : CopiesIn(y, req') > CopiesIn(y, req)}

\* the fields of a match that pay has no business with
Settlement(match) ==
    [status |-> match.status, winningTeam |-> match.winningTeam,
     teamA |-> Stakes(match.teamA), teamB |-> Stakes(match.teamB)]

Balances == [u \in Users |-> users[u].balance]
PaidCounts == [u \in Users |-> users[u].totalMatchesPaid]

\* C20: a step of pay changes no balance, no ledger entry and no match's
\* status, winningTeam or stakes; a step of settle changes no paid flag and
\* no totalMatchesPaid; a step of adjust changes no match and no
\* totalMatchesPaid.
FrameConditions ==
    [][\A y \in Moved :
          /\ y.kind = "pay" =>
                /\ Balances' = Balances
                /\ transactions' = transactions
                /\ \A id \in MatchIds :
                      Settlement(matches'[id]) = Settlement(matches[id])
          /\ y.kind = "settle" =>
                /\ PaidCounts' = PaidCounts
                /\ \A id \in MatchIds :
                      PaidFlags(matches'[id]) = PaidFlags(matches[id])
          /\ y.kind = "adjust" =>
                /\ matches' = matches
                /\ PaidCounts' = PaidCounts]_vars

\* C20 witness: a pay, a settle and their effects side by side: a paid
\* entry, a counted payment, a settled match and a moved balance.
FrameConditionsWitness ==
    /\ \E x \in Requests : x.kind = "pay" /\ x.res = 200
    /\ \E x \in Requests : x.kind = "settle" /\ x.res = 200
    /\ \E u \in Users : users[u].totalMatchesPaid > 0 /\ users[u].balance # 0
    /\ \E id \in MatchIds :
          /\ matches[id].status = "SETTLED"
          /\ \E p \in Entries(matches[id]) : p.paid
====
